---- MODULE Spec2Model ----
(***************************************************************************)
(* A model of video_editor.py: the project data model (MediaItem, Clip,    *)
(* Project), the timeline handlers (drop, drag release), the media library *)
(* handlers (import, remove), project persistence (to_dict / from_dict)    *)
(* and the export pipeline (export_project / _export_with_ffmpeg).         *)
(*                                                                         *)
(* Units.  Times are integers counted in ticks; one second is              *)
(* TicksPerSecond ticks, so half a millisecond is representable and the    *)
(* conversions seconds -> pixels and seconds -> milliseconds are not the   *)
(* identity.  Scene x coordinates are integers counted in                  *)
(* 1/TicksPerSecond pixel (ScenePx), so that start_time * pixels_per_second*)
(* is exact.                                                               *)
(*                                                                         *)
(* Paths are records [dir, stem, ext]: dir is the sequence of directory    *)
(* names, stem.ext the file name (ext = "" when there is no suffix).       *)
(***************************************************************************)
EXTENDS Integers, Sequences, FiniteSets, TLC

VARIABLES
    media,             \* Project.media: insertion-ordered dict id -> MediaItem, as a sequence of items
    video_clips,       \* Project.video_clips
    audio_clips,       \* Project.audio_clips
    workspace_dir,     \* Project.workspace_dir
    export_dir,        \* Project.export_dir
    cache,             \* get_media_duration._cache: path -> duration
    ffprobe,           \* whether `ffprobe -version` can be run (environment)
    uuids,             \* number of uuid4 values drawn so far
    drop_ignored,      \* the last drop event on the timeline was left unaccepted
    ffprobe_runs,      \* path -> number of times ffprobe was asked its duration (history)
    pc,                \* position of the UI thread inside export_project
    idx,               \* loop index of the running trim loop
    output_path,       \* export_project's output_path
    temp_dir,          \* _export_with_ffmpeg's temp_dir
    tmp_video_files,   \* _export_with_ffmpeg's tmp_video_files
    tmp_audio_files,   \* _export_with_ffmpeg's tmp_audio_files
    concat_list,       \* content of video_list.txt
    calls,             \* engine invocations of the running export, in start order
    written,           \* paths the running export has written to
    outcome,           \* what export_project reported
    export_dirs        \* temp_dir of every _export_with_ffmpeg invocation so far (history)

project_vars == <<media, video_clips, audio_clips, workspace_dir, export_dir>>
export_vars == <<pc, idx, output_path, temp_dir, tmp_video_files, tmp_audio_files,
                 concat_list, calls, written, outcome, export_dirs>>
vars == <<media, video_clips, audio_clips, workspace_dir, export_dir,
          cache, ffprobe, uuids, drop_ignored, ffprobe_runs,
          pc, idx, output_path, temp_dir, tmp_video_files, tmp_audio_files,
          concat_list, calls, written, outcome, export_dirs>>

(***************************************************************************)
(* Bounds of the model.                                                    *)
(***************************************************************************)
MaxClips == 2
MaxImports == 2
MaxExports == 2

(***************************************************************************)
(* Units and program constants.                                            *)
(***************************************************************************)
TicksPerSecond == 2 * 1000
Seconds(n) == n * TicksPerSecond
ScenePx(p) == p * TicksPerSecond

pixels_per_second == 100
audio_y == 60
DefaultDuration == Seconds(10)

Max(a, b) == IF a >= b THEN a ELSE b

(***************************************************************************)
(* Paths.                                                                  *)
(***************************************************************************)
HomeDir == <<"home">>
DefaultWorkspace == HomeDir \o <<"video_editor_workspace">>
DefaultExportDir == HomeDir \o <<"Videos">>
OtherWorkspace == HomeDir \o <<"ws2">>

path_join(dir, stem, ext) == [dir |-> dir, stem |-> stem, ext |-> ext]

video_exts == {"mp4", "avi", "mkv", "mov", "wmv", "flv"}
audio_exts == {"mp3", "wav"}
image_exts == {"png", "jpg", "jpeg", "bmp"}
file_filters == video_exts \cup audio_exts \cup image_exts

\* uuid.uuid4().hex: the n-th value drawn for a MediaItem id, all distinct
UuidHex(n) == <<"u1", "u2", "u3", "u4", "u5", "u6">>[n]
\* uuid.uuid4().hex[:8]: the value drawn for the n-th thumbnail name
ThumbHex(n) == <<"t1", "t2", "t3", "t4", "t5", "t6">>[n]

\* files the user can pick or drop
SrcA == path_join(DefaultExportDir, "a", "mp4")
SrcB == path_join(HomeDir, "b", "mp3")
SrcTxt == path_join(HomeDir, "notes", "txt")
SrcGone == path_join(HomeDir, "gone", "mp4")
ExistingFiles == {SrcA, SrcB, SrcTxt}
ImportPaths == {SrcA, SrcB, SrcTxt, SrcGone}

(***************************************************************************)
(* get_media_duration                                                      *)
(***************************************************************************)
ProbeFailed == 0 - 1

\* what ffprobe prints for a file: the file's duration, when it can be read
FileDuration(path) ==
    CASE path.stem = "a" -> Seconds(3)
      [] path.stem = "b" -> Seconds(4)
      [] OTHER -> Seconds(5)

\* every outcome a run of ffprobe on the file can have
ProbeOutcomes(path) == {FileDuration(path), ProbeFailed}

\* the outcome for a file that does not change: b.mp3 has no duration ffprobe can print
ProbeOf(path) == IF path.stem = "b" THEN ProbeFailed ELSE FileDuration(path)

ffprobe_installed == ffprobe

\* faulty variant: the value of a new run of ffprobe is returned for a path
\* that is in the cache
get_media_duration_fresh(path, probe) ==
    IF ~ffprobe_installed THEN DefaultDuration
    ELSE IF probe = ProbeFailed THEN DefaultDuration
    ELSE probe

\* the value returned; `probe` is the outcome of the ffprobe run, if one is made
get_media_duration(path, probe) ==
    IF ~ffprobe_installed THEN DefaultDuration
    ELSE IF path \in DOMAIN cache THEN cache[path]
    ELSE IF probe = ProbeFailed THEN DefaultDuration
    ELSE probe

\* the subprocess.run of ffprobe in get_media_duration: reached when ffprobe is
\* installed and the path is not in the cache
runs_after(path) ==
    IF ~ffprobe_installed \/ path \in DOMAIN cache THEN ffprobe_runs
    ELSE IF path \in DOMAIN ffprobe_runs
         THEN [ffprobe_runs EXCEPT ![path] = @ + 1]
         ELSE ffprobe_runs @@ (path :> 1)

\* get_media_duration._cache after the call
cache_after(path, probe) ==
    IF ~ffprobe_installed \/ path \in DOMAIN cache THEN cache
    ELSE cache @@ (path :> get_media_duration(path, probe))

(***************************************************************************)
(* MediaItem, Clip, Project                                                *)
(***************************************************************************)
MediaItem(path, media_type, thumbnail, id) ==
    [id |-> id, path |-> path, media_type |-> media_type, thumbnail |-> thumbnail]

\* A clip carries, beside the four fields of the dataclass, its entry of
\* TimelineWidget.graphics_to_clip: whether a QGraphicsRectItem maps to it
\* (drawn) and that item's rect.x() (rect_x).
Clip(media_id, in_point, out_point, start_time) ==
    [media_id |-> media_id, in_point |-> in_point, out_point |-> out_point,
     start_time |-> start_time, drawn |-> FALSE, rect_x |-> 0]

MediaIds(m) == {m[i].id : i \in DOMAIN m}
HasMedia(m, id) == id \in MediaIds(m)
MediaGet(m, id) == m[CHOOSE i \in DOMAIN m : m[i].id = id]

\* dict assignment m[item.id] = item: replaces in place, or appends
DictSet(m, item) ==
    IF HasMedia(m, item.id)
    THEN [i \in DOMAIN m |-> IF m[i].id = item.id THEN item ELSE m[i]]
    ELSE Append(m, item)

\* del m[id]
DictDel(m, id) == SelectSeq(m, LAMBDA it : it.id # id)

\* list.sort(key=lambda c: c.start_time): a stable sort
RECURSIVE InsertByStart(_, _)
InsertByStart(s, c) ==
    IF s = <<>> THEN <<c>>
    ELSE IF Head(s).start_time <= c.start_time
         THEN <<Head(s)>> \o InsertByStart(Tail(s), c)
         ELSE <<c>> \o s

RECURSIVE sort_by_start_time(_)
sort_by_start_time(s) ==
    IF s = <<>> THEN <<>>
    ELSE InsertByStart(sort_by_start_time(SubSeq(s, 1, Len(s) - 1)), s[Len(s)])

\* faulty variant: the new clip goes in front of the list before the sort
add_clip_front(clips, clip) == sort_by_start_time(<<clip>> \o clips)

\* Project.add_clip: the list of the named track after the call
add_clip(clips, clip) == sort_by_start_time(Append(clips, clip))


(***************************************************************************)
(* Persistence: to_dict / from_dict                                        *)
(***************************************************************************)
MediaItem_to_dict(item) ==
    [id |-> item.id, path |-> item.path, media_type |-> item.media_type,
     thumbnail |-> item.thumbnail]

MediaItem_from_dict(d) == MediaItem(d.path, d.media_type, d.thumbnail, d.id)

Clip_to_dict(clip) ==
    [media_id |-> clip.media_id, in |-> clip.in_point, out |-> clip.out_point,
     start |-> clip.start_time]

\* faulty variant: "out" and "start" read from each other's key
Clip_from_dict_swapped(d) == Clip(d.media_id, d.in, d.start, d.out)

Clip_from_dict(d) == Clip(d.media_id, d.in, d.out, d.start)

\* a Project as one value
ProjectValue(m, v, a, ws, ex) ==
    [media |-> m, video_clips |-> v, audio_clips |-> a,
     workspace_dir |-> ws, export_dir |-> ex]

\* Project(): the empty project with the default directories
Project_new == ProjectValue(<<>>, <<>>, <<>>, DefaultWorkspace, DefaultExportDir)

Project_to_dict(p) ==
    [media |-> [i \in DOMAIN p.media |-> MediaItem_to_dict(p.media[i])],
     video_clips |-> [i \in DOMAIN p.video_clips |-> Clip_to_dict(p.video_clips[i])],
     audio_clips |-> [i \in DOMAIN p.audio_clips |-> Clip_to_dict(p.audio_clips[i])],
     workspace_dir |-> p.workspace_dir,
     export_dir |-> p.export_dir]

\* dict.get(key, default)
dict_get(d, key, default) == IF key \in DOMAIN d THEN d[key] ELSE default

RECURSIVE load_media(_, _)
load_media(m, items) ==
    IF items = <<>> THEN m
    ELSE load_media(DictSet(m, MediaItem_from_dict(Head(items))), Tail(items))

\* the loop over one array of clip records
load_clips(ds) == [i \in DOMAIN ds |-> Clip_from_dict(ds[i])]

\* faulty variant: a clip whose media_id is not in the media array makes the
\* load give up with an empty project
Project_from_dict_strict(data) ==
    LET ids == {dict_get(data, "media", <<>>)[i].id : i \in DOMAIN dict_get(data, "media", <<>>)}
        clips == dict_get(data, "video_clips", <<>>) \o dict_get(data, "audio_clips", <<>>)
    IN  IF \E i \in DOMAIN clips : clips[i].media_id \notin ids
        THEN Project_new
        ELSE ProjectValue(load_media(<<>>, dict_get(data, "media", <<>>)),
                          load_clips(dict_get(data, "video_clips", <<>>)),
                          load_clips(dict_get(data, "audio_clips", <<>>)),
                          dict_get(data, "workspace_dir", Project_new.workspace_dir),
                          dict_get(data, "export_dir", Project_new.export_dir))

Project_from_dict(data) ==
        ProjectValue(load_media(<<>>, dict_get(data, "media", <<>>)),
                     load_clips(dict_get(data, "video_clips", <<>>)),
                     load_clips(dict_get(data, "audio_clips", <<>>)),
                     dict_get(data, "workspace_dir", Project_new.workspace_dir),
                     dict_get(data, "export_dir", Project_new.export_dir))

CurrentProject == ProjectValue(media, video_clips, audio_clips, workspace_dir, export_dir)

(***************************************************************************)
(* Handlers of the media library and of the timeline.  The UI thread runs  *)
(* one handler at a time; export_project runs on the UI thread, so no      *)
(* handler runs while pc # "idle".                                         *)
(***************************************************************************)
NoPath == path_join(<<>>, "", "")

Init ==
    /\ media = <<>>
    /\ video_clips = <<>>
    /\ audio_clips = <<>>
    /\ workspace_dir = DefaultWorkspace
    /\ export_dir = DefaultExportDir
    /\ cache = <<>>
    /\ ffprobe \in BOOLEAN
    /\ uuids = 0
    /\ drop_ignored = FALSE
    /\ ffprobe_runs = <<>>
    /\ pc = "idle"
    /\ idx = 0
    /\ output_path = NoPath
    /\ temp_dir = <<>>
    /\ tmp_video_files = <<>>
    /\ tmp_audio_files = <<>>
    /\ concat_list = <<>>
    /\ calls = <<>>
    /\ written = {}
    /\ outcome = "none"
    /\ export_dirs = <<>>

media_type_of(ext) ==
    IF ext \in audio_exts THEN "audio"
    ELSE IF ext \in image_exts THEN "image"
    ELSE "video"

\* generate_thumbnail: the path of the thumbnail it writes
generate_thumbnail(input_path, dest_dir, n) ==
    path_join(dest_dir, input_path.stem \o "_" \o ThumbHex(n), "jpg")

\* MediaLibraryWidget.import_media
import_media(path) ==
    /\ pc = "idle"
    /\ uuids < MaxImports
    /\ IF path \notin ExistingFiles \/ path.ext \notin file_filters
       THEN UNCHANGED <<media, uuids>>
       ELSE /\ media' = DictSet(media,
                    MediaItem(path, media_type_of(path.ext),
                              generate_thumbnail(path, workspace_dir \o <<"thumbnails">>, uuids + 1),
                              UuidHex(uuids + 1)))
            /\ uuids' = uuids + 1
    /\ UNCHANGED <<video_clips, audio_clips, workspace_dir, export_dir, cache, ffprobe, drop_ignored, ffprobe_runs>>
    /\ UNCHANGED export_vars

\* faulty variant: the clips of the removed item are deleted with it
contextMenuEvent_cascade(media_id) ==
    LET Keeps(c) == c.media_id # media_id
    IN  /\ pc = "idle"
        /\ HasMedia(media, media_id)
        /\ media' = DictDel(media, media_id)
        /\ video_clips' = SelectSeq(video_clips, Keeps)
        /\ audio_clips' = SelectSeq(audio_clips, Keeps)
        /\ UNCHANGED <<workspace_dir, export_dir, cache, ffprobe, drop_ignored, ffprobe_runs, uuids>>
        /\ UNCHANGED export_vars

\* MediaLibraryWidget.contextMenuEvent, "Remove" chosen on the item of media_id
contextMenuEvent(media_id) ==
    /\ pc = "idle"
    /\ HasMedia(media, media_id)
    /\ media' = DictDel(media, media_id)
    /\ UNCHANGED <<video_clips, audio_clips, workspace_dir, export_dir,
                   cache, ffprobe, drop_ignored, ffprobe_runs, uuids>>
    /\ UNCHANGED export_vars

\* rect.x() of the item _draw_clip makes for a clip
rect_x_of(clip) == clip.start_time * pixels_per_second

\* _draw_clip: no item when the media is not in the catalog
draw_clip(m, clip) ==
    IF HasMedia(m, clip.media_id)
    THEN [clip EXCEPT !.drawn = TRUE, !.rect_x = rect_x_of(clip)]
    ELSE clip

\* pos.x() / self.pixels_per_second, in ticks
scene_to_time(x) == x \div pixels_per_second

\* start_time = max(0.0, pos.x() / self.pixels_per_second)
drop_start_time(x) == Max(0, scene_to_time(x))

\* track = "video" if pos.y() < (self.audio_y) else "audio"
drop_track(y) == IF y < audio_y THEN "video" ELSE "audio"

\* faulty variant: a clip of the fallback duration is placed for the unknown id
drop_unknown_placed(media_id) ==
    /\ video_clips' = add_clip(video_clips, Clip(media_id, 0, DefaultDuration, 0))
    /\ drop_ignored' = FALSE
    /\ UNCHANGED <<audio_clips, cache, ffprobe_runs>>

\* if media_id not in self.project.media: return -- the handler returns before
\* event.acceptProposedAction()
drop_unknown(media_id) ==
    /\ drop_ignored' = TRUE
    /\ UNCHANGED <<video_clips, audio_clips, cache, ffprobe_runs>>

\* faulty variant: out_point taken for the clip's end on the timeline
drop_clip_out_is_end(media_id, duration, x) ==
    Clip(media_id, 0, drop_start_time(x) + duration, drop_start_time(x))

\* the Clip dropEvent constructs
drop_clip(media_id, duration, x) == Clip(media_id, 0, duration, drop_start_time(x))

\* TimelineWidget.dropEvent at scene position (x, y) with media_id in the mime data
dropEvent(media_id, x, y, probe) ==
    /\ pc = "idle"
    /\ IF ~HasMedia(media, media_id)
       THEN drop_unknown(media_id)
       ELSE LET path == MediaGet(media, media_id).path
                clip == draw_clip(media,
                            drop_clip(media_id, get_media_duration(path, probe), x))
            IN  /\ Len(video_clips) + Len(audio_clips) < MaxClips
                /\ probe \in ProbeOutcomes(path)
                /\ cache' = cache_after(path, probe)
                /\ ffprobe_runs' = runs_after(path)
                /\ IF drop_track(y) = "video"
                   THEN /\ video_clips' = add_clip(video_clips, clip)
                        /\ UNCHANGED audio_clips
                   ELSE /\ audio_clips' = add_clip(audio_clips, clip)
                        /\ UNCHANGED video_clips
                /\ drop_ignored' = FALSE
    /\ UNCHANGED <<media, workspace_dir, export_dir, ffprobe, uuids>>
    /\ UNCHANGED export_vars

\* faulty variant: the test new_start < 0 left out
release_start_time_unclamped(x) == scene_to_time(x)

\* new_start of mouseReleaseEvent for an item whose rect.x() is x
release_start_time(x) == IF scene_to_time(x) < 0 THEN 0 ELSE scene_to_time(x)

\* the rect.x() mouseReleaseEvent leaves on an item
release_rect_x(x) == IF scene_to_time(x) < 0 THEN 0 ELSE x

\* the body of the loop of mouseReleaseEvent, for one clip
release_clip(clip) ==
    IF clip.drawn
    THEN [clip EXCEPT !.start_time = release_start_time(clip.rect_x),
                      !.rect_x = release_rect_x(clip.rect_x)]
    ELSE clip

release_clips(clips) == [i \in DOMAIN clips |-> release_clip(clips[i])]

\* the drag Qt performs before the handler runs: the item of clip i is at x
drag_item(clips, i, x) == [clips EXCEPT ![i].rect_x = x]

\* TimelineWidget.mouseReleaseEvent after the item of the i-th clip of `track`
\* was dragged to scene x (the handler reads the result as rect.x())
mouseReleaseEvent(track, i, x) ==
    /\ pc = "idle"
    /\ IF track = "video"
       THEN /\ i \in DOMAIN video_clips
            /\ video_clips[i].drawn
            /\ video_clips' = release_clips(drag_item(video_clips, i, x))
            /\ audio_clips' = release_clips(audio_clips)
       ELSE /\ i \in DOMAIN audio_clips
            /\ audio_clips[i].drawn
            /\ audio_clips' = release_clips(drag_item(audio_clips, i, x))
            /\ video_clips' = release_clips(video_clips)
    /\ UNCHANGED <<media, workspace_dir, export_dir, cache, ffprobe, drop_ignored, ffprobe_runs, uuids>>
    /\ UNCHANGED export_vars

\* _draw_tracks: the items of a project's clips, made anew
draw_tracks(p) ==
    [p EXCEPT !.video_clips = [i \in DOMAIN p.video_clips |-> draw_clip(p.media, p.video_clips[i])],
              !.audio_clips = [i \in DOMAIN p.audio_clips |-> draw_clip(p.media, p.audio_clips[i])]]

\* the project replaces the current one (new_project, open_project)
\* and the timeline is refreshed
set_project(p) ==
    /\ media' = p.media
    /\ video_clips' = draw_tracks(p).video_clips
    /\ audio_clips' = draw_tracks(p).audio_clips
    /\ workspace_dir' = p.workspace_dir
    /\ export_dir' = p.export_dir

\* MainWindow.new_project; reply is the answer to _maybe_save's question
new_project(reply) ==
    /\ pc = "idle"
    /\ IF reply = "cancel"
       THEN UNCHANGED project_vars
       ELSE set_project(Project_new)
    /\ UNCHANGED <<cache, ffprobe, drop_ignored, ffprobe_runs, uuids>>
    /\ UNCHANGED export_vars

\* project files found on disk
DocA ==
    [media |-> <<[id |-> "d1", path |-> SrcA, media_type |-> "video",
                 thumbnail |-> path_join(OtherWorkspace \o <<"thumbnails">>, "a_t0", "jpg")]>>,
     video_clips |-> <<[media_id |-> "d1", in |-> Seconds(1), out |-> Seconds(2), start |-> Seconds(1)]>>,
     audio_clips |-> <<[media_id |-> "zz", in |-> 0, out |-> Seconds(4), start |-> 0]>>,
     workspace_dir |-> OtherWorkspace,
     export_dir |-> DefaultExportDir]
DocB == [media |-> <<>>]
\* a document save_project cannot have written: its clip ends before it begins
\* and starts before the origin of the timeline
DocC ==
    [media |-> <<[id |-> "d1", path |-> SrcA, media_type |-> "video",
                 thumbnail |-> path_join(DefaultWorkspace \o <<"thumbnails">>, "a_t0", "jpg")]>>,
     video_clips |-> <<[media_id |-> "d1", in |-> Seconds(2), out |-> Seconds(1),
                        start |-> 0 - Seconds(1)]>>,
     audio_clips |-> <<>>,
     workspace_dir |-> DefaultWorkspace,
     export_dir |-> DefaultExportDir]
Documents == {DocA, DocB}

\* MainWindow.open_project with the file of document `doc` chosen
open_project(reply, doc) ==
    /\ pc = "idle"
    /\ IF reply = "cancel"
       THEN UNCHANGED project_vars
       ELSE set_project(Project_from_dict(doc))
    /\ UNCHANGED <<cache, ffprobe, drop_ignored, ffprobe_runs, uuids>>
    /\ UNCHANGED export_vars

\* MainWindow.save_project: the document goes to a file, the project is not touched
save_project ==
    /\ pc = "idle"
    /\ UNCHANGED project_vars
    /\ UNCHANGED <<cache, ffprobe, drop_ignored, ffprobe_runs, uuids>>
    /\ UNCHANGED export_vars

\* SettingsDialog.accept with the two (stripped) line edits
SettingsDialog_accept(new_ws, new_exp) ==
    /\ pc = "idle"
    /\ workspace_dir' = IF new_ws # <<>> THEN new_ws ELSE workspace_dir
    /\ export_dir' = IF new_exp # <<>> THEN new_exp ELSE export_dir
    /\ UNCHANGED <<media, video_clips, audio_clips, cache, ffprobe, drop_ignored, ffprobe_runs, uuids>>
    /\ UNCHANGED export_vars

(***************************************************************************)
(* Export: export_project and _export_with_ffmpeg.  Every subprocess.run   *)
(* blocks the UI thread: an invocation is started by one step and ends     *)
(* with the next, engine_finish.                                           *)
(***************************************************************************)
\* f"{idx:03d}"
fmt03d(n) == "00" \o <<"0", "1", "2", "3", "4", "5", "6", "7", "8", "9">>[n + 1]

\* if not output_path.endswith(".mp4"): output_path += ".mp4"
ensure_mp4(p) ==
    IF p.ext = "mp4" THEN p
    ELSE path_join(p.dir, IF p.ext = "" THEN p.stem ELSE p.stem \o "." \o p.ext, "mp4")

\* temp_dir = os.path.join(self.project.workspace_dir, "export_tmp")
export_temp_dir(ws) == ws \o <<"export_tmp">>

video_tmp_out(dir, i) == path_join(dir, "v_" \o fmt03d(i), "mp4")
audio_tmp_out(dir, i) == path_join(dir, "a_" \o fmt03d(i), "mp3")
video_concat_path(dir) == path_join(dir, "video_concat", "mp4")

\* int(x) of x = ticks * 1000 / TicksPerSecond: rounds toward zero
int_ms(ticks) ==
    IF ticks >= 0 THEN (ticks * 1000) \div TicksPerSecond
    ELSE 0 - (((0 - ticks) * 1000) \div TicksPerSecond)

NoFilter == [sources |-> <<>>, delays |-> <<>>, inputs |-> 0, duration |-> "", maps |-> <<>>]

\* one ffmpeg command line: what it reads, what it does, the file it writes
EngineCall(kind, inputs, ss, to, filter, out) ==
    [kind |-> kind, inputs |-> inputs, ss |-> ss, to |-> to, filter |-> filter,
     out |-> out, status |-> "running"]

\* faulty variant: the trim seeks to the clip's place on the timeline
trim_cmd_at_start(kind, clip, media_path, tmp_out) ==
    EngineCall(kind, <<media_path>>, clip.start_time, clip.out_point - clip.in_point,
               NoFilter, tmp_out)

\* cmd of the trim loops: -ss in_point -i media.path -to (out_point - in_point) tmp_out
trim_cmd(kind, clip, media_path, tmp_out) ==
    EngineCall(kind, <<media_path>>, clip.in_point, clip.out_point - clip.in_point,
               NoFilter, tmp_out)

\* cmd_concat: -f concat -i video_list.txt -c copy video_concat.mp4
concat_cmd(list, out) == EngineCall("concat", list, 0, 0, NoFilter, out)

\* cmd_final without audio clips
final_cmd_video_only(concat_path, out) == EngineCall("mux", <<concat_path>>, 0, 0, NoFilter, out)

\* the adelay / amix filter graph and the two -map options; sources[i] is the
\* index of the ffmpeg input the i-th adelay reads ("[{idx}:a]"), input 0 being
\* the concatenated video
mix_filter(audio_files) ==
    [sources |-> [i \in DOMAIN audio_files |-> i - 1],
     delays |-> [i \in DOMAIN audio_files |-> int_ms(audio_files[i].start)],
     inputs |-> Len(audio_files),
     duration |-> "longest",
     maps |-> <<"0:v", "[aout]">>]

\* cmd_final with audio clips
final_cmd_mix(concat_path, audio_files, out) ==
    EngineCall("mux",
               <<concat_path>> \o [i \in DOMAIN audio_files |-> audio_files[i].path],
               0, 0, mix_filter(audio_files), out)

\* faulty variant: the list written last file first
write_concat_list_reversed(files) == [i \in DOMAIN files |-> files[Len(files) + 1 - i]]

\* the lines written to video_list.txt: one per trimmed file, in list order
write_concat_list(files) == [i \in DOMAIN files |-> files[i]]

\* faulty variant: subprocess.run without check=True
check_off == FALSE

\* check=True of every subprocess.run of the export
check == TRUE

\* faulty variant: the test made on both tracks
nothing_to_export_both_tracks == video_clips = <<>> /\ audio_clips = <<>>

\* if not self.project.video_clips: "Nothing to Export"
nothing_to_export == video_clips = <<>>

\* the except clause of export_project, and the end of the handler
export_fails ==
    /\ outcome' = "failed"
    /\ pc' = "done"

start_call(cmd) == calls' = Append(calls, cmd)

\* MainWindow.export_project up to the first engine invocation; `choice` is the
\* file the save dialog returns (NoPath: the dialog was cancelled)
export_project(choice) ==
    /\ pc = "idle"
    /\ IF ~ffprobe_installed
       THEN /\ outcome' = "ffmpeg_missing"
            /\ UNCHANGED <<output_path, temp_dir, export_dirs>>
       ELSE IF nothing_to_export
       THEN /\ outcome' = "nothing_to_export"
            /\ UNCHANGED <<output_path, temp_dir, export_dirs>>
       ELSE IF choice = NoPath
       THEN /\ outcome' = "cancelled"
            /\ UNCHANGED <<output_path, temp_dir, export_dirs>>
       ELSE /\ Len(export_dirs) < MaxExports
            /\ outcome' = "exporting"
            /\ output_path' = ensure_mp4(choice)
            /\ temp_dir' = export_temp_dir(workspace_dir)
            /\ export_dirs' = Append(export_dirs, export_temp_dir(workspace_dir))
    /\ pc' = IF outcome' = "exporting" THEN "video_trim" ELSE "done"
    /\ idx' = 0
    /\ tmp_video_files' = <<>>
    /\ tmp_audio_files' = <<>>
    /\ concat_list' = <<>>
    /\ calls' = <<>>
    /\ written' = {}
    /\ UNCHANGED project_vars
    /\ UNCHANGED <<cache, ffprobe, drop_ignored, ffprobe_runs, uuids>>

\* the head of the video loop: look the media up and start the trim
video_trim_start ==
    /\ pc = "video_trim"
    /\ idx < Len(video_clips)
    /\ IF ~HasMedia(media, video_clips[idx + 1].media_id)
       THEN /\ export_fails
            /\ UNCHANGED calls
       ELSE /\ start_call(trim_cmd("video_trim", video_clips[idx + 1],
                                   MediaGet(media, video_clips[idx + 1].media_id).path,
                                   video_tmp_out(temp_dir, idx)))
            /\ pc' = "video_trim_run"
            /\ UNCHANGED outcome
    /\ UNCHANGED <<idx, output_path, temp_dir, tmp_video_files, tmp_audio_files,
                   concat_list, written, export_dirs>>
    /\ UNCHANGED project_vars
    /\ UNCHANGED <<cache, ffprobe, drop_ignored, ffprobe_runs, uuids>>

\* after the video loop: write video_list.txt and start the concatenation
concat_start ==
    /\ pc = "video_trim"
    /\ idx = Len(video_clips)
    /\ concat_list' = write_concat_list(tmp_video_files)
    /\ start_call(concat_cmd(concat_list', video_concat_path(temp_dir)))
    /\ pc' = "concat_run"
    /\ UNCHANGED <<idx, output_path, temp_dir, tmp_video_files, tmp_audio_files,
                   written, outcome, export_dirs>>
    /\ UNCHANGED project_vars
    /\ UNCHANGED <<cache, ffprobe, drop_ignored, ffprobe_runs, uuids>>

\* faulty variant: a clip whose media is not in the catalog is skipped
audio_trim_start_skips ==
    /\ pc = "audio_trim"
    /\ idx < Len(audio_clips)
    /\ IF ~HasMedia(media, audio_clips[idx + 1].media_id)
       THEN /\ idx' = idx + 1
            /\ UNCHANGED <<calls, pc, outcome>>
       ELSE /\ start_call(trim_cmd("audio_trim", audio_clips[idx + 1],
                                   MediaGet(media, audio_clips[idx + 1].media_id).path,
                                   audio_tmp_out(temp_dir, idx)))
            /\ pc' = "audio_trim_run"
            /\ UNCHANGED <<idx, outcome>>
    /\ UNCHANGED <<output_path, temp_dir, tmp_video_files, tmp_audio_files,
                   concat_list, written, export_dirs>>
    /\ UNCHANGED project_vars
    /\ UNCHANGED <<cache, ffprobe, drop_ignored, ffprobe_runs, uuids>>

\* the head of the audio loop
audio_trim_start ==
    /\ pc = "audio_trim"
    /\ idx < Len(audio_clips)
    /\ IF ~HasMedia(media, audio_clips[idx + 1].media_id)
       THEN /\ export_fails
            /\ UNCHANGED calls
       ELSE /\ start_call(trim_cmd("audio_trim", audio_clips[idx + 1],
                                   MediaGet(media, audio_clips[idx + 1].media_id).path,
                                   audio_tmp_out(temp_dir, idx)))
            /\ pc' = "audio_trim_run"
            /\ UNCHANGED outcome
    /\ UNCHANGED <<idx, output_path, temp_dir, tmp_video_files, tmp_audio_files,
                   concat_list, written, export_dirs>>
    /\ UNCHANGED project_vars
    /\ UNCHANGED <<cache, ffprobe, drop_ignored, ffprobe_runs, uuids>>

\* the final command: after the concatenation when there are no audio clips,
\* after the audio loop otherwise
final_start ==
    /\ \/ /\ pc = "final"
          /\ start_call(final_cmd_video_only(video_concat_path(temp_dir), output_path))
       \/ /\ pc = "audio_trim"
          /\ idx = Len(audio_clips)
          /\ start_call(final_cmd_mix(video_concat_path(temp_dir), tmp_audio_files, output_path))
    /\ pc' = "final_run"
    /\ UNCHANGED <<idx, output_path, temp_dir, tmp_video_files, tmp_audio_files,
                   concat_list, written, outcome, export_dirs>>
    /\ UNCHANGED project_vars
    /\ UNCHANGED <<cache, ffprobe, drop_ignored, ffprobe_runs, uuids>>

\* what the handler does once the running invocation has returned 0
after_success ==
    CASE pc = "video_trim_run" ->
            /\ tmp_video_files' = Append(tmp_video_files, calls[Len(calls)].out)
            /\ idx' = idx + 1
            /\ pc' = "video_trim"
            /\ UNCHANGED <<tmp_audio_files, outcome>>
      [] pc = "concat_run" ->
            /\ pc' = IF audio_clips # <<>> THEN "audio_trim" ELSE "final"
            /\ idx' = 0
            /\ UNCHANGED <<tmp_video_files, tmp_audio_files, outcome>>
      [] pc = "audio_trim_run" ->
            /\ tmp_audio_files' = Append(tmp_audio_files,
                   [path |-> calls[Len(calls)].out, start |-> audio_clips[idx + 1].start_time])
            /\ idx' = idx + 1
            /\ pc' = "audio_trim"
            /\ UNCHANGED <<tmp_video_files, outcome>>
      [] pc = "final_run" ->
            /\ outcome' = "complete"
            /\ pc' = "done"
            /\ UNCHANGED <<idx, tmp_video_files, tmp_audio_files>>

EngineResults == {"ok", "failed", "failed_partial"}

\* subprocess.run returns: the engine wrote its output file and exited 0, or it
\* exited non-zero, with or without having written (part of) its output file
engine_finish(result) ==
    /\ pc \in {"video_trim_run", "concat_run", "audio_trim_run", "final_run"}
    /\ calls' = [calls EXCEPT ![Len(calls)].status = IF result = "ok" THEN "ok" ELSE "failed"]
    /\ written' = IF result = "failed" THEN written ELSE written \cup {calls[Len(calls)].out}
    /\ IF result # "ok" /\ check
       THEN /\ export_fails
            /\ UNCHANGED <<idx, tmp_video_files, tmp_audio_files>>
       ELSE after_success
    /\ UNCHANGED <<output_path, temp_dir, concat_list, export_dirs>>
    /\ UNCHANGED project_vars
    /\ UNCHANGED <<cache, ffprobe, drop_ignored, ffprobe_runs, uuids>>

\* export_project returns to the event loop; its locals are gone
export_return ==
    /\ pc = "done"
    /\ pc' = "idle"
    /\ outcome' = "none"
    /\ idx' = 0
    /\ output_path' = NoPath
    /\ temp_dir' = <<>>
    /\ tmp_video_files' = <<>>
    /\ tmp_audio_files' = <<>>
    /\ concat_list' = <<>>
    /\ calls' = <<>>
    /\ written' = {}
    /\ UNCHANGED export_dirs
    /\ UNCHANGED project_vars
    /\ UNCHANGED <<cache, ffprobe, drop_ignored, ffprobe_runs, uuids>>

(***************************************************************************)
(* Inputs.                                                                 *)
(***************************************************************************)
\* scene positions of drops and drag releases: left of the origin, 1 s, 3 s
TimelineXs == {ScenePx(0 - 50), ScenePx(100), ScenePx(300)}
DropXs == {ScenePx(0 - 50), ScenePx(100)}
DropYs == {20, 80}
\* ids a drag started in the media library carries: those of the catalog
DragIds == MediaIds(media)
\* ids the catalog does not hold: those of removed items, and a foreign one
StaleIds == ({UuidHex(n) : n \in 1..uuids} \cup {"zz"}) \ MediaIds(media)
\* the ffprobe run a drop of `id` makes, if it makes one
DropProbes(id) ==
    IF HasMedia(media, id) THEN {ProbeOf(MediaGet(media, id).path)} ELSE {ProbeFailed}
Replies == {"yes", "no", "cancel"}
\* the two line edits of the settings dialog: both left empty, or both filled in
SettingsInputs == {<< <<>>, <<>> >>, <<OtherWorkspace, HomeDir>>}

Import == \E path \in ImportPaths : import_media(path)
Remove == \E id \in MediaIds(media) : contextMenuEvent(id)
PlaceAt(xs) == \E id \in DragIds, x \in xs, y \in DropYs : \E probe \in DropProbes(id) :
                   dropEvent(id, x, y, probe)
MoveTo(xs) == \E track \in {"video", "audio"}, i \in 1..MaxClips, x \in xs :
                  mouseReleaseEvent(track, i, x)
Place == PlaceAt(DropXs)
Move == MoveTo(DropXs)
New == \E reply \in Replies : new_project(reply)
Open == \E reply \in Replies, doc \in Documents : open_project(reply, doc)
Save == save_project
Settings == \E s \in SettingsInputs : SettingsDialog_accept(s[1], s[2])

\* the editor without export
Next == Import \/ Remove \/ Place \/ Move \/ New \/ Open \/ Save \/ Settings
Spec == Init /\ [][Next]_vars

\* the timeline alone: import, place and move
TimelinePlace == PlaceAt(TimelineXs)
TimelineMove == MoveTo(TimelineXs)
NextTimeline == Import \/ TimelinePlace \/ TimelineMove
SpecTimeline == Init /\ [][NextTimeline]_vars

\* opening project files, those written by hand included, and placing clips
LoadDocuments == Documents \cup {DocC}
LoadOpen == \E reply \in Replies, doc \in LoadDocuments : open_project(reply, doc)
NextLoad == Import \/ Place \/ New \/ LoadOpen
SpecLoad == Init /\ [][NextLoad]_vars

\* drops of registered and of unregistered ids
DropAny == \E id \in DragIds \cup StaleIds, x \in DropXs, y \in DropYs :
               \E probe \in DropProbes(id) : dropEvent(id, x, y, probe)
NextDrop == Import \/ Remove \/ DropAny
SpecDrop == Init /\ [][NextDrop]_vars

\* probing: every outcome a run of ffprobe can have, and ffprobe being installed
\* or removed while the editor runs (ffprobe_installed asks on every call)
ProbeXs == {ScenePx(100)}
ProbePlace == \E id \in DragIds, x \in ProbeXs, y \in DropYs :
                  \E probe \in ProbeOutcomes(MediaGet(media, id).path) :
                      dropEvent(id, x, y, probe)
ffprobe_changes ==
    /\ ffprobe' = ~ffprobe
    /\ UNCHANGED <<media, video_clips, audio_clips, workspace_dir, export_dir,
                   cache, drop_ignored, ffprobe_runs, uuids>>
    /\ UNCHANGED export_vars
NextProbe == Import \/ ProbePlace \/ ffprobe_changes
SpecProbe == Init /\ [][NextProbe]_vars

\* files the export dialog can return: none, a new name without suffix, the
\* source file a.mp4
OutputChoices == {NoPath, path_join(DefaultExportDir, "out", ""), SrcA}
ExportXs == {ScenePx(0), ScenePx(250)}

ExportPlace == PlaceAt(ExportXs)
Export == \E choice \in OutputChoices : export_project(choice)
EngineFinish == \E result \in EngineResults : engine_finish(result)

\* building a timeline and exporting it
NextExport ==
    \/ Import
    \/ Remove
    \/ ExportPlace
    \/ Export
    \/ video_trim_start
    \/ concat_start
    \/ audio_trim_start
    \/ final_start
    \/ EngineFinish
    \/ export_return
SpecExport == Init /\ [][NextExport]_vars

\* exporting a timeline with clips of removed media; the file chosen in the
\* export dialog is a new name or the first temporary file of the pipeline
DanglingChoices == {path_join(DefaultExportDir, "out", ""),
                    video_tmp_out(export_temp_dir(DefaultWorkspace), 0)}
DanglingXs == {ScenePx(0)}
DanglingPlace == PlaceAt(DanglingXs)
DanglingExport == \E choice \in DanglingChoices : export_project(choice)
NextDangling ==
    \/ Import
    \/ Remove
    \/ DanglingPlace
    \/ DanglingExport
    \/ video_trim_start
    \/ concat_start
    \/ audio_trim_start
    \/ final_start
    \/ EngineFinish
    \/ export_return
SpecDangling == Init /\ [][NextDangling]_vars

\* placing clips at equal and at different start times and exporting them to
\* a new file
TiesExport == export_project(path_join(DefaultExportDir, "out", ""))
NextTies ==
    \/ Import
    \/ ExportPlace
    \/ TiesExport
    \/ video_trim_start
    \/ concat_start
    \/ audio_trim_start
    \/ final_start
    \/ EngineFinish
    \/ export_return
SpecTies == Init /\ [][NextTies]_vars

(***************************************************************************)
(* Claims.                                                                 *)
(***************************************************************************)
IsSortedByStart(clips) ==
    \A i \in 1..(Len(clips) - 1) : clips[i].start_time <= clips[i + 1].start_time

\* C1: in every state reached by place and move operations, the clips of
\* each track are in ascending start_time order.
C1_TracksSorted == IsSortedByStart(video_clips) /\ IsSortedByStart(audio_clips)

\* the kind of the k-th engine invocation of an export of n video clips and m
\* audio clips
KindAt(k, n, m) ==
    IF k <= n THEN "video_trim"
    ELSE IF k = n + 1 THEN "concat"
    ELSE IF k <= n + 1 + m THEN "audio_trim"
    ELSE "mux"

\* the k-th invocation trims `clip` out of its source asset
TrimsClip(call, clip) ==
    /\ call.inputs = <<MediaGet(media, clip.media_id).path>>
    /\ call.ss = clip.in_point
    /\ call.to = clip.out_point - clip.in_point

\* C2: the engine invocations of one export are, in order, one trim per video
\* clip in track order, one concatenation reading exactly the outputs of those
\* trims in that order, one trim per audio clip in track order if there are
\* audio clips, and one final mux; only the last invocation issued can still
\* be running, and a completed export has issued all of them.
C2_PipelineOrder ==
    LET n == Len(video_clips)
        m == Len(audio_clips)
    IN  /\ Len(calls) <= n + m + 2
        /\ \A k \in DOMAIN calls :
              /\ calls[k].kind = KindAt(k, n, m)
              /\ k < Len(calls) => calls[k].status # "running"
              /\ k <= n => TrimsClip(calls[k], video_clips[k])
              /\ k = n + 1 => calls[k].inputs = [j \in 1..n |-> calls[j].out]
              /\ (n + 1 < k /\ k <= n + 1 + m) => TrimsClip(calls[k], audio_clips[k - n - 1])
              /\ k = n + m + 2 =>
                    calls[k].inputs =
                        <<calls[n + 1].out>> \o [j \in 1..m |-> calls[n + 1 + j].out]
        /\ outcome = "complete" =>
              /\ Len(calls) = n + m + 2
              /\ \A k \in DOMAIN calls : calls[k].status = "ok"

\* C2 witness: a completed export of a timeline with a video and an audio clip
C2_Witness ==
    /\ pc = "done"
    /\ outcome = "complete"
    /\ video_clips # <<>>
    /\ audio_clips # <<>>
    /\ Len(calls) = Len(video_clips) + Len(audio_clips) + 2

\* C3: an engine invocation that failed is the last one of its export, and the
\* export has ended with the failure reported.
C3_FailureAborts ==
    \A k \in DOMAIN calls :
        calls[k].status = "failed" =>
            /\ k = Len(calls)
            /\ pc = "done"
            /\ outcome = "failed"

\* C3 witness: an export ended by the failure of a step that is neither its
\* first nor its last
C3_Witness ==
    /\ pc = "done"
    /\ outcome = "failed"
    /\ Len(calls) >= 2
    /\ Len(calls) < Len(video_clips) + Len(audio_clips) + 2
    /\ calls[Len(calls)].status = "failed"

\* C4: when an export has ended in failure, no file written by it is at the
\* output path.
C4_NoOutputOnFailure ==
    (pc = "done" /\ outcome = "failed") => output_path \notin written

\* C5: no two exports use the same temporary directory.
C5_DistinctTempDirs ==
    \A i, j \in DOMAIN export_dirs : i # j => export_dirs[i] # export_dirs[j]

\* C6: no engine invocation writes to the path of an asset of the catalog.
C6_NoWriteToSource ==
    \A k \in DOMAIN calls : \A i \in DOMAIN media : calls[k].out # media[i].path

\* C7 as stated: an export requested with no video clip ends as "Nothing to
\* Export" without any engine invocation.
C7_EmptyTimelineError ==
    (pc = "done" /\ video_clips = <<>>) =>
        (outcome = "nothing_to_export" /\ calls = <<>>)

\* C7 amended: an export requested with no video clip makes no engine
\* invocation and writes no file, whatever the audio track holds; it ends as
\* "Nothing to Export" when ffprobe is installed and as "FFmpeg Missing" when
\* it is not.
C7_EmptyTimelineNoEngine ==
    (pc # "idle" /\ video_clips = <<>>) =>
        /\ pc = "done"
        /\ calls = <<>>
        /\ written = {}
        /\ outcome = IF ffprobe THEN "nothing_to_export" ELSE "ffmpeg_missing"

\* C7 witness: "Nothing to Export" with a clip on the audio track
C7_Witness ==
    /\ pc = "done"
    /\ video_clips = <<>>
    /\ audio_clips # <<>>
    /\ outcome = "nothing_to_export"

\* the fields of the Clip dataclass
ClipFields(c) ==
    [media_id |-> c.media_id, in_point |-> c.in_point, out_point |-> c.out_point,
     start_time |-> c.start_time]
TrackFields(clips) == [i \in DOMAIN clips |-> ClipFields(clips[i])]

\* the fields of a project that a project document records
TrackedFields(p) ==
    [media |-> p.media,
     video_clips |-> TrackFields(p.video_clips),
     audio_clips |-> TrackFields(p.audio_clips),
     workspace_dir |-> p.workspace_dir,
     export_dir |-> p.export_dir]

\* C8: loading the document saved from a project gives a project with the same
\* media items (in the same order), the same clips (media_id, in, out, start) in
\* the same order on both tracks, and the same two directories.
C8_RoundTrip ==
    TrackedFields(Project_from_dict(Project_to_dict(CurrentProject)))
        = TrackedFields(CurrentProject)

\* C8 witness: two assets, a track holding two different clips, changed directories
C8_Witness ==
    /\ Len(media) >= 2
    /\ workspace_dir # DefaultWorkspace
    /\ \/ Len(video_clips) >= 2 /\ ClipFields(video_clips[1]) # ClipFields(video_clips[2])
       \/ Len(audio_clips) >= 2 /\ ClipFields(audio_clips[1]) # ClipFields(audio_clips[2])

\* a move changes no clip's media_id, in_point or out_point, and no track's length
SameButStart(old, new) ==
    /\ Len(new) = Len(old)
    /\ \A j \in DOMAIN old :
          /\ new[j].media_id = old[j].media_id
          /\ new[j].in_point = old[j].in_point
          /\ new[j].out_point = old[j].out_point

\* C9: a drag release of a clip to time t = x / pixels_per_second sets that
\* clip's start_time to max(0, t), and changes neither the in_point, out_point
\* or media_id of any clip nor which clips each track holds.
C9_MoveSetsStart ==
    [][\A track \in {"video", "audio"}, x \in TimelineXs :
         \A i \in 1..(Len(video_clips) + Len(audio_clips)) :
            mouseReleaseEvent(track, i, x) =>
                /\ IF track = "video"
                   THEN video_clips'[i].start_time = Max(0, x \div pixels_per_second)
                   ELSE audio_clips'[i].start_time = Max(0, x \div pixels_per_second)
                /\ SameButStart(video_clips, video_clips')
                /\ SameButStart(audio_clips, audio_clips')
                /\ media' = media]_vars

\* C9 witness: a track left out of order by a drag to the left of the origin,
\* where the dragged clip starts at 0
C9_Witness ==
    \/ /\ Len(video_clips) >= 2
       /\ video_clips[1].start_time > 0
       /\ video_clips[2].start_time = 0
    \/ /\ Len(audio_clips) >= 2
       /\ audio_clips[1].start_time > 0
       /\ audio_clips[2].start_time = 0

\* how many clips of a track have the fields c
CountClips(clips, c) == Cardinality({i \in DOMAIN clips : ClipFields(clips[i]) = c})

\* `new` holds the clips of `old`, each with the fields it had, and one clip
\* more, which has the fields of a fresh clip of media `id` lasting `duration`
\* placed at time t
GrownByOne(old, new, id, duration, t) ==
    LET fresh == [media_id |-> id, in_point |-> 0, out_point |-> duration,
                  start_time |-> Max(0, t)]
    IN  /\ Len(new) = Len(old) + 1
        /\ \A k \in DOMAIN new :
              LET c == ClipFields(new[k])
              IN  CountClips(new, c) = CountClips(old, c) + (IF c = fresh THEN 1 ELSE 0)

\* C10: a drop of a registered media id at (x, y) adds exactly one clip with
\* in_point 0, out_point the probed duration of the asset (the memoized probe,
\* or 10 s without ffprobe) and start_time max(0, x / pixels_per_second) to
\* the track named by y, and leaves the other track and the fields of the
\* clips placed before unchanged.
C10_PlaceAddsOneClip ==
    [][\A id \in MediaIds(media), x \in TimelineXs, y \in DropYs :
         \A probe \in DropProbes(id) :
            dropEvent(id, x, y, probe) =>
                LET path == MediaGet(media, id).path
                    duration == IF ~ffprobe THEN Seconds(10)
                                ELSE IF path \in DOMAIN cache THEN cache[path]
                                ELSE IF probe < 0 THEN Seconds(10)
                                ELSE probe
                    t == x \div pixels_per_second
                IN  IF y < audio_y
                    THEN /\ GrownByOne(video_clips, video_clips', id, duration, t)
                         /\ audio_clips' = audio_clips
                    ELSE /\ GrownByOne(audio_clips, audio_clips', id, duration, t)
                         /\ video_clips' = video_clips]_vars

\* C10 witness: a clip placed at 1 s on a track that held a clip before, the
\* other track holding a clip too
C10_Witness ==
    /\ Len(video_clips) + Len(audio_clips) >= 2
    /\ \E i \in DOMAIN video_clips :
          /\ video_clips[i].in_point = 0
          /\ video_clips[i].start_time = Seconds(1)
          /\ video_clips[i].out_point \in {Seconds(3), Seconds(10)}
    /\ \E i \in DOMAIN audio_clips : audio_clips[i].in_point = 0

TiesAt(clips, t) ==
    LET StartsAt(c) == c.start_time = t
    IN  SelectSeq(TrackFields(clips), StartsAt)

StartTimes(clips) == {clips[i].start_time : i \in DOMAIN clips}

\* `new` is `old` after a clip of media `id` was placed at time t: among the
\* clips starting at t the new clip is the last and the others keep their
\* order, and so do the clips starting at any other time
PlacedAfterTies(old, new, id, t) ==
    /\ Len(TiesAt(new, t)) = Len(TiesAt(old, t)) + 1
    /\ SubSeq(TiesAt(new, t), 1, Len(TiesAt(old, t))) = TiesAt(old, t)
    /\ TiesAt(new, t)[Len(TiesAt(new, t))].media_id = id
    /\ TiesAt(new, t)[Len(TiesAt(new, t))].in_point = 0
    /\ \A u \in (StartTimes(old) \cup StartTimes(new)) \ {t} : TiesAt(new, u) = TiesAt(old, u)

\* the engine invocations that trim the clips of a track starting at time t
TrimsOfTies(kind, clips, t) ==
    LET Trims(c) == c.kind = kind
        trims == SelectSeq(calls, Trims)
        StartsAt(k) == clips[k].start_time = t
        tied == SelectSeq([k \in DOMAIN clips |-> k], StartsAt)
    IN  [j \in {i \in DOMAIN tied : tied[i] <= Len(trims)} |->
            [input |-> trims[tied[j]].inputs[1], ss |-> trims[tied[j]].ss]]

\* C12: a clip placed at the start time of clips already on the track goes
\* after all of them, a placement never changes the relative order of the
\* clips that start at the same time, and an export trims the clips that start
\* at the same time in their order on the track.
C12_StablePlacement ==
    /\ [][\A id \in MediaIds(media), x \in ExportXs, y \in DropYs :
            \A probe \in DropProbes(id) :
               dropEvent(id, x, y, probe) =>
                   IF y < audio_y
                   THEN PlacedAfterTies(video_clips, video_clips', id,
                                        Max(0, x \div pixels_per_second))
                   ELSE PlacedAfterTies(audio_clips, audio_clips', id,
                                        Max(0, x \div pixels_per_second))]_vars
    /\ [](\A t \in StartTimes(video_clips) :
             LET trims == TrimsOfTies("video_trim", video_clips, t)
                 ties == TiesAt(video_clips, t)
             IN  \A j \in DOMAIN trims :
                    /\ trims[j].input = MediaGet(media, ties[j].media_id).path
                    /\ trims[j].ss = ties[j].in_point)

\* C12 witness: a completed export of a video track whose two clips, of
\* different assets, start at the same time
C12_Witness ==
    /\ pc = "done"
    /\ outcome = "complete"
    /\ Len(video_clips) = 2
    /\ video_clips[1].start_time = video_clips[2].start_time
    /\ video_clips[1].media_id # video_clips[2].media_id
    /\ MediaGet(media, video_clips[1].media_id).path
           # MediaGet(media, video_clips[2].media_id).path

\* C13: removing the item `id` from the media library deletes that entry of the
\* catalog and no other, leaves the other entries as they were, and leaves
\* every clip of both tracks unchanged, those of the removed item included.
C13_RemoveNoCascade ==
    [][\A id \in MediaIds(media) :
         contextMenuEvent(id) =>
            /\ MediaIds(media') = MediaIds(media) \ {id}
            /\ Len(media') = Len(media) - 1
            /\ \A k \in MediaIds(media') : MediaGet(media', k) = MediaGet(media, k)
            /\ video_clips' = video_clips
            /\ audio_clips' = audio_clips]_vars

\* C13 witness: a clip on a track whose item was removed from a catalog that
\* still holds another item
C13_Witness ==
    /\ media # <<>>
    /\ \E n \in 1..uuids :
          /\ ~HasMedia(media, UuidHex(n))
          /\ \E i \in DOMAIN video_clips : video_clips[i].media_id = UuidHex(n)

\* the ids of the media array of a document
DocMediaIds(doc) ==
    {dict_get(doc, "media", <<>>)[i].id : i \in DOMAIN dict_get(doc, "media", <<>>)}

\* the clip records of one array of a document, as clip fields
DocClips(doc, key) ==
    LET ds == dict_get(doc, key, <<>>)
    IN  [i \in DOMAIN ds |-> [media_id |-> ds[i].media_id, in_point |-> ds[i].in,
                               out_point |-> ds[i].out, start_time |-> ds[i].start]]

\* some clip record of the document names a media id its media array lacks
HasDangling(doc) ==
    \E key \in {"video_clips", "audio_clips"} :
        \E i \in DOMAIN DocClips(doc, key) :
            DocClips(doc, key)[i].media_id \notin DocMediaIds(doc)

\* the clips of a sequence of clip fields whose media_id is among ids
ResolvingClips(fields, ids) ==
    LET Resolves(c) == c.media_id \in ids
    IN  SelectSeq(fields, Resolves)

\* C14: opening a document in which a clip names a media id that its media
\* array lacks replaces the project by one that holds every asset of the
\* document, as recorded, and every clip of the document whose media id
\* resolves, in the document's order on its track; the directories are the
\* document's.
C14_LoadDangling ==
    [][\A reply \in Replies \ {"cancel"}, doc \in LoadDocuments :
         (HasDangling(doc) /\ open_project(reply, doc)) =>
            /\ [i \in DOMAIN media' |-> MediaItem_to_dict(media'[i])] = doc.media
            /\ ResolvingClips(TrackFields(video_clips'), DocMediaIds(doc))
                  = ResolvingClips(DocClips(doc, "video_clips"), DocMediaIds(doc))
            /\ ResolvingClips(TrackFields(audio_clips'), DocMediaIds(doc))
                  = ResolvingClips(DocClips(doc, "audio_clips"), DocMediaIds(doc))
            /\ workspace_dir' = doc.workspace_dir
            /\ export_dir' = doc.export_dir]_vars

\* C14 witness: the project of a document with a dangling clip is open: its
\* asset is in the catalog, its resolving clip is on the video track and drawn,
\* its dangling clip is on the audio track
C14_Witness ==
    /\ [i \in DOMAIN media |-> MediaItem_to_dict(media[i])] = DocA.media
    /\ TrackFields(video_clips) = DocClips(DocA, "video_clips")
    /\ \A i \in DOMAIN video_clips : video_clips[i].drawn
    /\ \E i \in DOMAIN audio_clips : ~HasMedia(media, audio_clips[i].media_id)

\* floor(ticks * 1000 / TicksPerSecond)
FloorMs(ticks) ==
    IF ticks >= 0 THEN (ticks * 1000) \div TicksPerSecond
    ELSE 0 - (((0 - ticks) * 1000 + TicksPerSecond - 1) \div TicksPerSecond)

\* C15: the final command of an export with audio clips mixes one input per
\* audio clip, in track order: the i-th delayed stream is read from the output
\* of the i-th audio trim and delayed by floor(start_time * 1000) ms; the mix
\* lasts as long as its longest input; video is mapped from the concatenated
\* video (input 0) and audio from the mix.
C15_MixInputs ==
    \A k \in DOMAIN calls :
        (calls[k].kind = "mux" /\ audio_clips # <<>>) =>
            LET f == calls[k].filter
                n == Len(video_clips)
                m == Len(audio_clips)
            IN  /\ f.inputs = m
                /\ DOMAIN f.delays = 1..m
                /\ DOMAIN f.sources = 1..m
                /\ \A i \in 1..m :
                      /\ calls[k].inputs[f.sources[i] + 1] = calls[n + 1 + i].out
                      /\ f.delays[i] = FloorMs(audio_clips[i].start_time)
                /\ f.duration = "longest"
                /\ calls[k].inputs[1] = calls[n + 1].out
                /\ f.maps = <<"0:v", "[aout]">>

RECURSIVE SumTo(_, _)
\* the sum of f[1] .. f[n]
SumTo(f, n) == IF n = 0 THEN 0 ELSE f[n] + SumTo(f, n - 1)

\* C16: in an export with no audio clip, the k-th engine invocation, k up to
\* the number n of video clips, trims [in_point, out_point) of the k-th
\* clip's asset into a file of its own; invocation n + 1 concatenates exactly
\* those n files in order; invocation n + 2 muxes the concatenated video alone
\* into the output path; a completed export has made exactly these n + 2
\* invocations, the trims totalling the sum of out_point - in_point.  Nothing
\* in an invocation is taken from a clip's start_time.
C16_VideoOnlyPlan ==
    audio_clips = <<>> =>
        LET n == Len(video_clips)
        IN  /\ \A k \in DOMAIN calls :
                  /\ k <= n =>
                        /\ calls[k].kind = "video_trim"
                        /\ calls[k].inputs = <<MediaGet(media, video_clips[k].media_id).path>>
                        /\ calls[k].ss = video_clips[k].in_point
                        /\ calls[k].ss + calls[k].to = video_clips[k].out_point
                        /\ calls[k].filter = NoFilter
                        /\ calls[k].out.dir = temp_dir
                        /\ \A j \in 1..(k - 1) : calls[j].out # calls[k].out
                  /\ k = n + 1 =>
                        /\ calls[k].kind = "concat"
                        /\ calls[k].inputs = [j \in 1..n |-> calls[j].out]
                        /\ calls[k].filter = NoFilter
                        /\ calls[k].out.dir = temp_dir
                        /\ \A j \in 1..n : calls[j].out # calls[k].out
                  /\ k = n + 2 =>
                        /\ calls[k].kind = "mux"
                        /\ calls[k].inputs = <<calls[n + 1].out>>
                        /\ calls[k].filter = NoFilter
                        /\ calls[k].out = output_path
                  /\ k <= n + 2
            /\ outcome = "complete" =>
                  /\ Len(calls) = n + 2
                  /\ SumTo([k \in 1..n |-> calls[k].to], n)
                        = SumTo([k \in 1..n |-> video_clips[k].out_point
                                                     - video_clips[k].in_point], n)

\* C16 witness: a completed export of two video clips of different assets, the
\* second placed at 2.5 s, and no audio clip: 3 s and 10 s of material
C16_Witness ==
    /\ pc = "done"
    /\ outcome = "complete"
    /\ audio_clips = <<>>
    /\ Len(video_clips) = 2
    /\ video_clips[2].start_time > 0
    /\ Len(calls) = 4
    /\ calls[1].to + calls[2].to = Seconds(3) + Seconds(10)

\* a clip's range and place are valid
ValidClip(c) ==
    /\ 0 <= c.in_point
    /\ c.in_point < c.out_point
    /\ c.start_time >= 0

\* C17: every clip on either track has 0 <= in_point < out_point and
\* start_time >= 0.
C17_ClipRanges ==
    /\ \A i \in DOMAIN video_clips : ValidClip(video_clips[i])
    /\ \A i \in DOMAIN audio_clips : ValidClip(audio_clips[i])

\* the clips on both tracks
PlacedClips ==
    {video_clips[i] : i \in DOMAIN video_clips} \cup {audio_clips[i] : i \in DOMAIN audio_clips}

\* the file a clip plays
ClipPath(c) == MediaGet(media, c.media_id).path

\* C18 as stated: every probe of a path after the first returns the value of
\* the first probe: the clips placed from one file all have the same
\* out_point, the duration probed when each was dropped.
C18_SameAsFirst ==
    \A c1 \in PlacedClips, c2 \in PlacedClips :
        (HasMedia(media, c1.media_id) /\ HasMedia(media, c2.media_id)
            /\ ClipPath(c1) = ClipPath(c2)) => c1.out_point = c2.out_point

\* C18: a probe made while ffprobe is not installed returns 10 s, runs nothing
\* and memoizes nothing.  A probe made while ffprobe is installed returns the
\* memoized value of the path without a run of ffprobe if there is one, and
\* otherwise runs ffprobe once and memoizes what it returns, 10 s when the
\* run fails.  A memoized value never changes and ffprobe runs at most once
\* per path.
C18_ProbeMemoized ==
    [][/\ \A id \in MediaIds(media), x \in ProbeXs, y \in DropYs :
            \A probe \in ProbeOutcomes(MediaGet(media, id).path) :
               dropEvent(id, x, y, probe) =>
                  LET path == MediaGet(media, id).path
                      memoized == path \in DOMAIN cache
                      returned == IF ~ffprobe THEN Seconds(10)
                                  ELSE IF memoized THEN cache[path]
                                  ELSE IF probe = ProbeFailed THEN Seconds(10)
                                  ELSE probe
                      t == x \div pixels_per_second
                  IN  /\ IF y < audio_y
                         THEN GrownByOne(video_clips, video_clips', id, returned, t)
                         ELSE GrownByOne(audio_clips, audio_clips', id, returned, t)
                      /\ IF ffprobe /\ ~memoized
                         THEN /\ cache' = cache @@ (path :> returned)
                              /\ ffprobe_runs' = ffprobe_runs @@ (path :> 1)
                         ELSE /\ cache' = cache
                              /\ ffprobe_runs' = ffprobe_runs
       /\ \A p \in DOMAIN cache : p \in DOMAIN cache' /\ cache'[p] = cache[p]
       /\ \A p \in DOMAIN ffprobe_runs' : ffprobe_runs'[p] = 1]_vars

\* two clips of one file on the video track, both with the memoized 10 s of a
\* failed run although the file is shorter, and ffprobe was run once
C18_Witness ==
    /\ ffprobe
    /\ Len(video_clips) >= 2
    /\ HasMedia(media, video_clips[1].media_id)
    /\ HasMedia(media, video_clips[2].media_id)
    /\ LET path == ClipPath(video_clips[1])
       IN  /\ ClipPath(video_clips[2]) = path
           /\ path \in DOMAIN cache
           /\ cache[path] = DefaultDuration
           /\ FileDuration(path) # DefaultDuration
           /\ video_clips[1].out_point = DefaultDuration
           /\ video_clips[2].out_point = DefaultDuration
           /\ ffprobe_runs[path] = 1

\* an export is in flight: _export_with_ffmpeg has started the pipeline and
\* has neither completed nor failed
ExportInFlight == outcome = "exporting" /\ pc \notin {"idle", "done"}

\* C19: the export runs off the interactive thread: while an export is in
\* flight the interactive operations stay available (an import is handled
\* as long as the library can take one more item), and no new-project or
\* open-project can replace the project the export reads.
C19_ExportOffUiThread ==
    ExportInFlight =>
        /\ uuids < MaxImports => ENABLED import_media(SrcA)
        /\ \A reply \in Replies : ~ENABLED new_project(reply)
        /\ \A reply \in Replies, doc \in Documents : ~ENABLED open_project(reply, doc)

\* a clip on either track names a media id the catalog does not hold
DanglingAt(clips) == {i \in DOMAIN clips : ~HasMedia(media, clips[i].media_id)}
Dangling == DanglingAt(video_clips) # {} \/ DanglingAt(audio_clips) # {}

\* _export_with_ffmpeg has been entered by the export now in the handler
ExportStarted == outcome \in {"exporting", "failed", "complete"}

\* the final mux of the export now in the handler has been invoked
MuxInvoked == \E k \in DOMAIN calls : calls[k].kind = "mux"

====
